---- MODULE Spec2Model ----
(***************************************************************************)
(* Model of the PQTest result view panel of vscode-powerquery-sdk:         *)
(* SimplePqTestResultViewBroker (the value broker), PqTestResultViewPanel  *)
(* (the singleton panel wrapper) and the message protocol between the      *)
(* extension host and the webview.                                         *)
(*                                                                         *)
(* Every handler runs to completion on the single extension-host event     *)
(* loop, so one action is one handler, nested synchronous calls included.  *)
(* Handlers are operators from a state record S to a state record; an      *)
(* action applies one handler to the current state and commits the result. *)
(***************************************************************************)
EXTENDS Integers, Sequences, FiniteSets, TLC

\* ---------------------------------------------------------------- bounds
MaxPanels == 2         \* webview panels explored, restored and created together
MaxSubscribers == 2    \* longest subscriber list explored

\* ------------------------------------------------------------- constants
SlotOrder == <<"latestPqTestResult">>   \* keys of values, in for-in order
Slots == {SlotOrder[i] : i \in 1..Len(SlotOrder)}
Undefined == "undefined"
Values == {"v1", "v2"}
Callbacks == {"relay", "cbA"}
OnOneValueUpdated == "OnOneValueUpdated"
MessageTypes == {"onReady", "other"}
ListenerKinds == <<"onDidDispose", "onDidChangeViewState", "onDidReceiveMessage">>
KindSet == {ListenerKinds[i] : i \in 1..Len(ListenerKinds)}
PanelIds == 1..MaxPanels
LayoutOutcomes == {"fulfilled", "rejected", "pending"}

VARIABLES currentPanel, instances, panels, values, subscribers, activation, log

vars == <<currentPanel, instances, panels, values, subscribers, activation, log>>

\* ------------------------------------------------------------- helpers
Last(s) == s[Len(s)]
Front(s) == SubSeq(s, 1, Len(s) - 1)

EmptyLog ==
    [op |-> "init", target |-> 0, slot |-> "none", arg |-> "none", created |-> <<>>, constructed |-> <<>>, reveals |-> <<>>,
     layout |-> "none", posted |-> <<>>, calls |-> <<>>, emitAlls |-> 0,
     renders |-> <<>>, order |-> <<>>, failed |-> <<>>, swallowed |-> 0, threw |-> FALSE]

NoInstance == [panel |-> 0, disposables |-> <<>>,
               released |-> [k \in KindSet |-> 0], disposeCalls |-> 0]

NoEnv == [fails |-> {}, postFails |-> FALSE, layout |-> "fulfilled"]

\* The state a handler starts from: the program state, an empty log for the
\* operation, the environment's choices and no pending exception.
\* A wrapper whose dispose() has run, whose panel is disposed and which
\* currentPanel does not name is referenced by nothing: its fields are
\* forgotten once the handler that disposed it has returned.
Unreferenced(w) ==
    /\ instances[w].disposeCalls > 0
    /\ panels[w].status = "disposed"
    /\ currentPanel # w

Start(op, env) ==
    [currentPanel |-> currentPanel,
     instances |-> [w \in PanelIds |->
                      IF Unreferenced(w) THEN NoInstance ELSE instances[w]],
     panels |-> panels,
     values |-> values, subscribers |-> subscribers,
     log |-> [EmptyLog EXCEPT !.op = op], env |-> env, exc |-> FALSE]

StartOn(op, p, arg, env) ==
    [Start(op, env) EXCEPT !.log.target = p, !.log.arg = arg]

StartSlot(op, slot, arg, env) ==
    [Start(op, env) EXCEPT !.log.slot = slot, !.log.arg = arg]

Commit(S) ==
    /\ currentPanel' = S.currentPanel
    /\ instances' = S.instances
    /\ panels' = S.panels
    /\ values' = S.values
    /\ subscribers' = S.subscribers
    /\ log' = [S.log EXCEPT !.threw = S.exc]

\* ------------------------------------------------------ message protocol
\* postOneMessage: one webview.postMessage({type, payload}) on the wrapper's
\* own panel; both promise callbacks are no-ops, so the outcome of the post
\* is recorded and nothing else depends on it.
\* postOneMessage that posts the message again when the post is rejected.
postOneMessageRetries(S, w, type, payload) ==
    LET p == S.instances[w].panel
        entry == [panel |-> p, type |-> type, payload |-> payload,
                  disposed |-> S.panels[p].status = "disposed",
                  delivered |-> ~S.env.postFails]
    IN IF S.env.postFails
       THEN [S EXCEPT !.log.posted = Append(Append(@, entry), entry)]
       ELSE [S EXCEPT !.log.posted = Append(@, entry)]

postOneMessage(S, w, type, payload) ==
    LET p == S.instances[w].panel
        entry == [panel |-> p, type |-> type, payload |-> payload,
                  disposed |-> S.panels[p].status = "disposed",
                  delivered |-> ~S.env.postFails]
    IN [S EXCEPT !.log.posted = Append(@, entry)]

\* The subscriber registered by SimplePqTestResultViewBroker.activate:
\* currentPanel?.postOneMessage("OnOneValueUpdated", {property, value}).
\* The relay with the two payload fields filled from the wrong variables.
relaySwapsPayload(S, oneProperty, nextValue) ==
    IF S.currentPanel # 0
    THEN postOneMessage(S, S.currentPanel, OnOneValueUpdated,
                        [property |-> nextValue, value |-> oneProperty])
    ELSE S

relay(S, oneProperty, nextValue) ==
    IF S.currentPanel # 0
    THEN postOneMessage(S, S.currentPanel, OnOneValueUpdated,
                        [property |-> oneProperty, value |-> nextValue])
    ELSE S

\* ----------------------------------------------------- ValueEventEmitter
\* One invocation of a subscriber; the log keeps the argument and the value
\* the slot stored at the moment of the call.
Invoke(S, slot, cb, v) ==
    LET S1 == [S EXCEPT !.log.calls =
                  Append(@, [cb |-> cb, slot |-> slot, value |-> v,
                             stored |-> S.values[slot]])]
    IN IF cb = "relay" THEN relay(S1, slot, v) ELSE S1

RECURSIVE InvokeAll(_, _, _, _)
InvokeAll(S, slot, subs, v) ==
    IF subs = <<>> THEN S
    ELSE InvokeAll(Invoke(S, slot, Head(subs), v), slot, Tail(subs), v)

subscribe(S, slot, cb) ==
    [S EXCEPT !.subscribers[slot] = Append(@, cb)]

\* emit(nextValue): store the value when one is given, then call every
\* subscriber registered at that moment, in subscription order, with the
\* stored value.  emit() without an argument re-delivers the stored value.
\* emit that calls the subscribers before it stores the value.
emitNotifiesFirst(S, slot, nextValue) ==
    LET v == IF nextValue # Undefined THEN nextValue ELSE S.values[slot]
        S1 == InvokeAll(S, slot, S.subscribers[slot], v)
    IN [S1 EXCEPT !.values[slot] = v]

emit(S, slot, nextValue) ==
    LET S1 == IF nextValue # Undefined
              THEN [S EXCEPT !.values[slot] = nextValue]
              ELSE S
    IN InvokeAll(S1, slot, S1.subscribers[slot], S1.values[slot])

disposeEmitter(S, slot) ==
    [S EXCEPT !.subscribers[slot] = <<>>]

\* ------------------------------------------ SimplePqTestResultViewBroker
RECURSIVE activateFrom(_, _)
activateFrom(S, i) ==
    IF i > Len(SlotOrder) THEN S
    ELSE activateFrom(subscribe(S, SlotOrder[i], "relay"), i + 1)

\* activate guarded against a second call: slots that carry the relay are
\* left alone.
activateOnce(S) ==
    IF \E s \in Slots :
           \E j \in 1..Len(S.subscribers[s]) : S.subscribers[s][j] = "relay"
    THEN S
    ELSE activateFrom(S, 1)

activate(S) == activateFrom(S, 1)

RECURSIVE emitAllFrom(_, _)
emitAllFrom(S, i) ==
    IF i > Len(SlotOrder) THEN S
    ELSE emitAllFrom(emit(S, SlotOrder[i], Undefined), i + 1)

\* emitAll whose loop over the slots never runs.
emitAllSkipsSlots(S) == [S EXCEPT !.log.emitAlls = @ + 1]

emitAll(S) == emitAllFrom([S EXCEPT !.log.emitAlls = @ + 1], 1)

RECURSIVE deActivateFrom(_, _)
deActivateFrom(S, i) ==
    IF i > Len(SlotOrder) THEN S
    ELSE deActivateFrom(disposeEmitter(S, SlotOrder[i]), i + 1)

\* deActivate that leaves the emitters as they are.
deActivateKeepsSubscribers(S) == S

deActivate(S) == deActivateFrom(S, 1)

\* ------------------------------------------------- PqTestResultViewPanel
getWebviewOptions == "current"
getHtmlForWebview == "bootstrap"

\* _update: set the title and re-render the bootstrap document.
update(S, w) ==
    LET p == S.instances[w].panel
    IN [S EXCEPT !.panels[p].title = "PQTest result webview",
                 !.panels[p].html = getHtmlForWebview,
                 !.log.renders = Append(@, p),
                 !.log.order = Append(@, "render")]

\* One listener registration: panel.onDidX(handler, null, this._disposables)
\* adds the listener to the panel and pushes its disposable on _disposables.
addListener(S, w, kind) ==
    LET p == S.instances[w].panel
    IN [S EXCEPT !.panels[p].listeners = Append(@, [event |-> kind, inst |-> w]),
                 !.instances[w].disposables = Append(@, kind),
                 !.log.order = Append(@, "listen")]

RECURSIVE addListenersFrom(_, _, _)
addListenersFrom(S, w, i) ==
    IF i > Len(ListenerKinds) THEN S
    ELSE addListenersFrom(addListener(S, w, ListenerKinds[i]), w, i + 1)

\* constructor: _update(), then the three listener registrations.
\* A wrapper is named by the panel it wraps: every panel is handed to the
\* constructor at most once (createOrShow wraps the panel it has just created,
\* the serializer wraps a panel the host restores once).
construct(S, p) ==
    LET w == p
        S1 == [S EXCEPT !.instances[w] = [NoInstance EXCEPT !.panel = p],
                        !.log.constructed = Append(@, w)]
    IN addListenersFrom(update(S1, w), w, 1)

NextPanel(S) == CHOOSE p \in PanelIds :
                    /\ S.panels[p].status = "none"
                    /\ \A q \in PanelIds : S.panels[q].status = "none" => p <= q

\* vscode.window.createWebviewPanel(viewType, title, Beside, options)
createWebviewPanel(S, p) ==
    [S EXCEPT !.panels[p].status = "open",
              !.panels[p].origin = "created",
              !.panels[p].title = "PQTest result",
              !.panels[p].visible = TRUE,
              !.panels[p].options = getWebviewOptions,
              !.log.created = Append(@, p),
              !.log.order = Append(@, "options")]

\* createOrShow without the reveal() of the existing panel.
createOrShowNoReveal(S) ==
    IF S.currentPanel # 0
    THEN S
    ELSE LET p == NextPanel(S)
             S1 == [S EXCEPT !.log.layout = S.env.layout]
             S2 == construct(createWebviewPanel(S1, p), p)
         IN [S2 EXCEPT !.currentPanel = Last(S2.log.constructed)]

\* createOrShow that creates the panel in the fulfilled callback of the
\* layout command.
createOrShowAwaitsLayout(S) ==
    IF S.currentPanel # 0
    THEN [S EXCEPT !.log.reveals = Append(@, S.instances[S.currentPanel].panel)]
    ELSE LET p == NextPanel(S)
             S1 == [S EXCEPT !.log.layout = S.env.layout]
             S2 == construct(createWebviewPanel(S1, p), p)
         IN IF S.env.layout = "fulfilled"
            THEN [S2 EXCEPT !.currentPanel = Last(S2.log.constructed)]
            ELSE S1

createOrShow(S) ==
    IF S.currentPanel # 0
    THEN [S EXCEPT !.log.reveals = Append(@, S.instances[S.currentPanel].panel)]
    ELSE LET p == NextPanel(S)
             S1 == [S EXCEPT !.log.layout = S.env.layout]
             S2 == construct(createWebviewPanel(S1, p), p)
         IN [S2 EXCEPT !.currentPanel = Last(S2.log.constructed)]

revive(S, p) ==
    LET S1 == construct(S, p)
    IN [S1 EXCEPT !.currentPanel = Last(S1.log.constructed)]

\* webviewPanel.webview.options = getWebviewOptions(extensionUri)
setOptions(S, p) ==
    [S EXCEPT !.panels[p].options = getWebviewOptions,
              !.log.order = Append(@, "options")]

\* The host hands the restored panel to the serializer.
restored(S, p) ==
    [S EXCEPT !.panels[p].status = "open", !.panels[p].visible = TRUE]

\* deserializeWebviewPanel with its two statements in the other order.
deserializeWebviewPanelRevivesFirst(S, p) ==
    setOptions(revive(restored(S, p), p), p)

\* deserializeWebviewPanel: reset the options, then revive.
deserializeWebviewPanel(S, p) ==
    revive(setOptions(restored(S, p), p), p)

\* disposable.dispose() of one listener registration.
release(S, w, kind) ==
    LET p == S.instances[w].panel
        Keep(l) == ~(l.event = kind /\ l.inst = w)
    IN [S EXCEPT !.panels[p].listeners = SelectSeq(@, Keep),
                 !.instances[w].released[kind] = @ + 1]

\* while (this._disposables.length) { pop(); disposable.dispose(); }
\* There is no try/catch: a release that throws ends the loop.
RECURSIVE popAll(_, _)
popAll(S, w) ==
    IF S.instances[w].disposables = <<>> THEN S
    ELSE LET d == Last(S.instances[w].disposables)
             S1 == [S EXCEPT !.instances[w].disposables = Front(@)]
         IN IF d \in S.env.fails
            THEN [S1 EXCEPT !.exc = TRUE,
                            !.log.failed = Append(@, [inst |-> w, kind |-> d])]
            ELSE popAll(release(S1, w, d), w)

RECURSIVE dispose(_, _)
RECURSIVE fireDidDispose(_, _)

\* WebviewPanel.dispose() of the host: a no-op on a disposed panel, else mark
\* it disposed, fire onDidDispose synchronously and drop the panel's emitters.
panelDispose(S, p) ==
    IF S.panels[p].status = "disposed" THEN S
    ELSE LET S1 == [S EXCEPT !.panels[p].status = "disposed",
                             !.panels[p].visible = FALSE]
             Is(l) == l.event = "onDidDispose"
             S2 == fireDidDispose(S1, SelectSeq(S1.panels[p].listeners, Is))
         IN [S2 EXCEPT !.panels[p].listeners = <<>>]

\* The host's emitter calls each listener and swallows what it throws.
fireDidDispose(S, ls) ==
    IF ls = <<>> THEN S
    ELSE LET S1 == dispose(S, Head(ls).inst)
             S2 == IF S1.exc
                   THEN [S1 EXCEPT !.exc = FALSE, !.log.swallowed = @ + 1]
                   ELSE S1
         IN fireDidDispose(S2, Tail(ls))

\* dispose() without the assignment currentPanel = undefined.
disposeKeepsCurrent(S, w) ==
    LET S1 == [S EXCEPT !.instances[w].disposeCalls = @ + 1]
        S2 == panelDispose(S1, S1.instances[w].panel)
    IN popAll(S2, w)

dispose(S, w) ==
    LET S1 == [S EXCEPT !.currentPanel = 0,
                        !.instances[w].disposeCalls = @ + 1]
        S2 == panelDispose(S1, S1.instances[w].panel)
    IN popAll(S2, w)

\* The listener without the test of this._panel.visible.
onDidChangeViewStateAlways(S, w) == update(S, w)

\* onDidChangeViewState listener: if (this._panel.visible) this._update()
onDidChangeViewState(S, w) ==
    IF S.panels[S.instances[w].panel].visible THEN update(S, w) ELSE S

\* onDidReceiveMessage listener: switch (message.type) { case "onReady": ... }
\* The listener with the switch on message.type left out.
onDidReceiveMessageAnyType(S, w, type) == emitAll(S)

onDidReceiveMessage(S, w, type) ==
    IF type = "onReady" THEN emitAll(S) ELSE S

\* The host's emitters for the two other panel events.
RECURSIVE fireDidChangeViewState(_, _)
fireDidChangeViewState(S, ls) ==
    IF ls = <<>> THEN S
    ELSE fireDidChangeViewState(onDidChangeViewState(S, Head(ls).inst), Tail(ls))

RECURSIVE fireDidReceiveMessage(_, _, _)
fireDidReceiveMessage(S, ls, type) ==
    IF ls = <<>> THEN S
    ELSE fireDidReceiveMessage(onDidReceiveMessage(S, Head(ls).inst, type),
                               Tail(ls), type)

ListenersOf(S, p, kind) ==
    LET Is(l) == l.event = kind IN SelectSeq(S.panels[p].listeners, Is)

\* ------------------------------------------------------------------ state
NoPanel == [status |-> "none", origin |-> "none", visible |-> FALSE,
            options |-> "none", html |-> "none", title |-> "none",
            listeners |-> <<>>]

SerializedPanel == [status |-> "serialized", origin |-> "restored",
                    visible |-> FALSE, options |-> "stale", html |-> "none",
                    title |-> "PQTest result", listeners |-> <<>>]

TypeOK ==
    /\ currentPanel \in 0..MaxPanels
    /\ \A w \in PanelIds :
          /\ instances[w].panel \in {0, w}
          /\ instances[w].disposeCalls \in 0..2
          /\ \A k \in KindSet : instances[w].released[k] \in 0..1
    /\ \A p \in PanelIds :
          /\ panels[p].status \in {"none", "serialized", "open", "disposed"}
          /\ panels[p].visible \in BOOLEAN
          /\ panels[p].options \in {"none", "stale", "current"}
    /\ \A s \in Slots :
          /\ values[s] \in Values \cup {Undefined}
          /\ Len(subscribers[s]) <= MaxSubscribers
          /\ \A i \in 1..Len(subscribers[s]) : subscribers[s][i] \in Callbacks
    /\ activation \in {"inactive", "active", "deactivated"}

CanCreate == \E p \in PanelIds : panels[p].status = "none"

FailSets == SUBSET KindSet

Init ==
    /\ currentPanel = 0
    /\ instances = [p \in PanelIds |-> NoInstance]
    /\ \E r \in 0..MaxPanels :
          panels = [p \in PanelIds |-> IF p <= r THEN SerializedPanel ELSE NoPanel]
    /\ values = [s \in Slots |-> Undefined]
    /\ subscribers = [s \in Slots |-> <<>>]
    /\ activation = "inactive"
    /\ log = EmptyLog

RoomToSubscribe == \A s \in Slots : Len(subscribers[s]) < MaxSubscribers

\* ---------------------------------------------------------------- actions
\* PqTestResultViewPanel.activate: register the command and the serializer,
\* activate the broker, hand back the handle that deactivates it.
PanelActivate ==
    /\ activation = "inactive"
    /\ RoomToSubscribe
    /\ Commit(activate(Start("activate", NoEnv)))
    /\ activation' = "active"

\* A further direct call of SimplePqTestResultViewBroker.activate().
BrokerActivate ==
    /\ activation = "active"
    /\ RoomToSubscribe
    /\ Commit(activate(Start("brokerActivate", NoEnv)))
    /\ UNCHANGED activation

\* Disposal of the handle returned by PqTestResultViewPanel.activate.
Deactivate ==
    /\ activation = "active"
    /\ Commit(deActivate(Start("deactivate", NoEnv)))
    /\ activation' = "deactivated"

Subscribe(slot, cb) ==
    /\ Len(subscribers[slot]) < MaxSubscribers
    /\ Commit(subscribe(StartSlot("subscribe", slot, cb, NoEnv), slot, cb))
    /\ UNCHANGED activation

Emit(slot, v, postFails) ==
    /\ Commit(emit(StartSlot("emit", slot, v, [NoEnv EXCEPT !.postFails = postFails]),
                   slot, v))
    /\ UNCHANGED activation

\* The registered command: createOrShow(extensionUri).
ShowCommand(layout) ==
    /\ activation # "inactive"
    /\ currentPanel # 0 \/ CanCreate
    /\ Commit(createOrShow(Start("show", [NoEnv EXCEPT !.layout = layout])))
    /\ UNCHANGED activation

\* The host restores a serialized panel through the registered serializer.
\* Serialized panels are numbered in the order the host restores them.
Deserialize(p) ==
    /\ activation # "inactive"
    /\ panels[p].status = "serialized"
    /\ \A q \in PanelIds : q < p => panels[q].status # "serialized"
    /\ Commit(deserializeWebviewPanel(StartOn("revive", p, "none", NoEnv), p))
    /\ UNCHANGED activation

\* The user or the host closes an open panel.
SurfaceClosed(p, fails) ==
    /\ panels[p].status = "open"
    /\ Commit(panelDispose(StartOn("closed", p, "none", [NoEnv EXCEPT !.fails = fails]), p))
    /\ UNCHANGED activation

\* currentPanel.dispose() called by the extension itself.
DisposeDirect(fails) ==
    /\ currentPanel # 0
    /\ Commit(dispose(StartOn("dispose", instances[currentPanel].panel, "none",
                              [NoEnv EXCEPT !.fails = fails]), currentPanel))
    /\ UNCHANGED activation

ViewStateChanged(p, visible) ==
    /\ panels[p].status = "open"
    /\ LET S0 == StartOn("viewState", p, IF visible THEN "visible" ELSE "hidden", NoEnv)
           S1 == [S0 EXCEPT !.panels[p].visible = visible]
       IN Commit(fireDidChangeViewState(S1, ListenersOf(S1, p, "onDidChangeViewState")))
    /\ UNCHANGED activation

MessageReceived(p, type, postFails) ==
    /\ panels[p].status = "open"
    /\ LET S0 == StartOn("message", p, type, [NoEnv EXCEPT !.postFails = postFails])
       IN Commit(fireDidReceiveMessage(S0, ListenersOf(S0, p, "onDidReceiveMessage"), type))
    /\ UNCHANGED activation

Next ==
    \/ PanelActivate
    \/ BrokerActivate
    \/ Deactivate
    \/ \E s \in Slots, cb \in Callbacks \ {"relay"} : Subscribe(s, cb)
    \/ \E s \in Slots, v \in Values, f \in BOOLEAN : Emit(s, v, f)
    \/ \E l \in LayoutOutcomes : ShowCommand(l)
    \/ \E p \in PanelIds : Deserialize(p)
    \/ \E p \in PanelIds, F \in FailSets : SurfaceClosed(p, F)
    \/ \E F \in FailSets : DisposeDirect(F)
    \/ \E p \in PanelIds, b \in BOOLEAN : ViewStateChanged(p, b)
    \/ \E p \in PanelIds, t \in MessageTypes, f \in BOOLEAN : MessageReceived(p, t, f)

Spec == Init /\ [][Next]_vars

\* ------------------------------------------------------------ properties
\* A wrapper is live from its construction until its dispose() has run.
Live(w) == instances[w].panel # 0 /\ instances[w].disposeCalls = 0
LiveInstances == {w \in PanelIds : Live(w)}
Closing == log.op \in {"closed", "dispose"}
FailedKinds == {log.failed[i].kind : i \in 1..Len(log.failed)}

\* C1: at most one wrapper is live at any time, whatever the order of
\* show-commands, revivals and surface-closed events.
C1_AtMostOneLive == Cardinality(LiveInstances) <= 1

\* C2: a show-command with no current instance creates exactly one panel and
\* one wrapper around it and makes it current; a show-command with a current
\* instance reveals that instance's panel exactly once and creates nothing.
C2_ShowCreatesOrReveals ==
    [][log'.op = "show" =>
         IF currentPanel = 0
         THEN /\ Len(log'.created) = 1
              /\ log'.constructed = log'.created
              /\ log'.reveals = <<>>
              /\ panels[log'.created[1]].status = "none"
              /\ panels'[log'.created[1]].status = "open"
              /\ currentPanel' = log'.created[1]
              /\ instances'[currentPanel'].panel = log'.created[1]
              /\ instances'[currentPanel'].disposeCalls = 0
         ELSE /\ log'.reveals = <<instances[currentPanel].panel>>
              /\ log'.created = <<>>
              /\ log'.constructed = <<>>
              /\ currentPanel' = currentPanel
              /\ panels' = panels]_vars

\* A show-command has revealed the panel of the existing instance.
C2_Witness ==
    /\ log.op = "show"
    /\ currentPanel # 0
    /\ log.reveals = <<instances[currentPanel].panel>>
    /\ log.created = <<>>

\* C3: when a panel instance is closed, by the surface-closed event or by a
\* direct dispose(), each of its three listener disposables has been released
\* exactly once.
C3_ReleasedExactlyOnce ==
    Closing => \A k \in KindSet : instances[log.target].released[k] = 1

\* C4: the surface-closed event leaves currentPanel empty, and the show-command
\* that follows creates a new panel with a new wrapper around it instead of
\* revealing or reusing the closed one.
C4_ClosedThenFresh ==
    [][/\ (log'.op = "closed" /\ log'.target = currentPanel) => currentPanel' = 0
       /\ (log.op = "closed" /\ log'.op = "show") =>
             /\ currentPanel = 0
             /\ Len(log'.created) = 1
             /\ log'.created[1] # log.target
             /\ log'.constructed = log'.created
             /\ log'.reveals = <<>>
             /\ currentPanel' = log'.created[1]
             /\ panels'[currentPanel'].status = "open"
             /\ instances'[currentPanel'].disposeCalls = 0
             /\ instances'[currentPanel'].disposables = ListenerKinds]_vars

\* A show-command has created a fresh panel while a closed one exists.
C4_Witness ==
    /\ log.op = "show"
    /\ Len(log.created) = 1
    /\ currentPanel = log.created[1]
    /\ \E q \in PanelIds : q # currentPanel /\ panels[q].status = "disposed"

\* C5: when a release throws during disposal, every other owned disposable
\* is still released and currentPanel is still cleared.
C5_FailingReleaseIsolated ==
    (Closing /\ log.failed # <<>>) =>
        /\ currentPanel = 0
        /\ \A k \in KindSet \ FailedKinds : instances[log.target].released[k] = 1

\* The wrappers as the next handler finds them.
Heap == [w \in PanelIds |-> IF Unreferenced(w) THEN NoInstance ELSE instances[w]]

RelayCount(s) ==
    LET IsRelay(c) == c = "relay" IN Len(SelectSeq(subscribers[s], IsRelay))

CallsOn(calls, s) ==
    LET OnSlot(c) == c.slot = s IN SelectSeq(calls, OnSlot)

\* C6: an inbound "onReady" message triggers exactly one emitAll(); a message
\* of any other type triggers no emitAll, no subscriber call and no post,
\* raises no error and leaves the panel and broker state as it was.
C6_OnlyOnReadyEmitsAll ==
    [][log'.op = "message" =>
         IF log'.arg = "onReady"
         THEN log'.emitAlls = 1
         ELSE /\ log'.emitAlls = 0
              /\ log'.calls = <<>>
              /\ log'.posted = <<>>
              /\ log'.renders = <<>>
              /\ ~log'.threw
              /\ currentPanel' = currentPanel
              /\ instances' = Heap
              /\ panels' = panels
              /\ values' = values
              /\ subscribers' = subscribers
              /\ activation' = activation]_vars

\* An "onReady" message has run emitAll() once and reached a subscriber.
C6_Witness ==
    /\ log.op = "message"
    /\ log.arg = "onReady"
    /\ log.emitAlls = 1
    /\ log.calls # <<>>

\* C7: with one relay subscriber on the slot and a current panel, an emit of
\* value v on slot s posts exactly one message, to the current panel, and the
\* message is {type: "OnOneValueUpdated", payload: {property: s, value: v}}.
C7_EmitPostsOneEnvelope ==
    (log.op = "emit" /\ currentPanel # 0 /\ RelayCount(log.slot) = 1) =>
        /\ Len(log.posted) = 1
        /\ log.posted[1].panel = instances[currentPanel].panel
        /\ log.posted[1].type = OnOneValueUpdated
        /\ log.posted[1].payload = [property |-> log.slot, value |-> log.arg]
        /\ values[log.slot] = log.arg

\* An emit has been relayed to the current panel.
C7_Witness ==
    /\ log.op = "emit"
    /\ currentPanel # 0
    /\ RelayCount(log.slot) = 1
    /\ Len(log.posted) = 1
    /\ log.posted[1].payload.value = "v2"

\* C8: an emit of a value calls every subscriber registered on the slot
\* exactly once, in subscription order, with the new value, and the slot
\* already stores the new value at the first call.
C8_EmitCallsInOrder ==
    log.op = "emit" =>
        /\ Len(log.calls) = Len(subscribers[log.slot])
        /\ \A i \in 1..Len(log.calls) :
              log.calls[i] = [cb |-> subscribers[log.slot][i], slot |-> log.slot,
                              value |-> log.arg, stored |-> log.arg]

\* An emit has called two different subscribers.
C8_Witness ==
    /\ log.op = "emit"
    /\ Len(log.calls) >= 2
    /\ log.calls[1].cb # log.calls[2].cb

\* C9: emitAll() calls, for every slot, every subscriber registered on it with
\* the value the slot stores, changed or not since the last emit, and changes
\* no stored value and no subscriber list.
C9_EmitAllRedelivers ==
    [][(log'.op = "message" /\ log'.arg = "onReady") =>
         /\ values' = values
         /\ subscribers' = subscribers
         /\ \A s \in Slots :
               CallsOn(log'.calls, s) =
                   [i \in 1..Len(subscribers[s]) |->
                       [cb |-> subscribers[s][i], slot |-> s,
                        value |-> values[s], stored |-> values[s]]]]_vars

\* emitAll() has delivered a value stored by an earlier emit.
C9_Witness ==
    /\ log.op = "message"
    /\ log.arg = "onReady"
    /\ log.calls # <<>>
    /\ log.calls[1].value \in Values

\* C10: deactivate() leaves every subscriber list empty; an emit after it
\* stores the value, calls no subscriber registered before it and posts no
\* message, also while a panel is current.
C10_DeactivateSilences ==
    /\ log.op = "deactivate" => \A s \in Slots : subscribers[s] = <<>>
    /\ (activation = "deactivated" /\ log.op = "emit") =>
          /\ values[log.slot] = log.arg
          /\ log.posted = <<>>
          /\ Len(log.calls) = Len(subscribers[log.slot])
          /\ \A i \in 1..Len(log.calls) : log.calls[i].cb # "relay"

\* An emit after deactivate() has stored its value with a panel current
\* and called nobody.
C10_Witness ==
    /\ activation = "deactivated"
    /\ log.op = "emit"
    /\ currentPanel # 0
    /\ subscribers[log.slot] = <<>>
    /\ log.calls = <<>>
    /\ values[log.slot] = log.arg

\* C11: a post that fails is neither retried nor surfaced: the emit completes
\* without an error, makes the same posts and the same subscriber calls, the
\* subscribers after the relay included, and leaves the same panel and broker
\* state as the emit whose posts succeed.
C11_FailedPostIgnored ==
    [][(/\ log'.op \in {"emit", "message"}
        /\ \E i \in 1..Len(log'.posted) : ~log'.posted[i].delivered) =>
         LET S0 == StartOn("message", log'.target, log'.arg, NoEnv)
             ok == IF log'.op = "emit"
                   THEN emit(StartSlot("emit", log'.slot, log'.arg, NoEnv),
                             log'.slot, log'.arg)
                   ELSE fireDidReceiveMessage(
                            S0, ListenersOf(S0, log'.target, "onDidReceiveMessage"),
                            log'.arg)
         IN /\ ~log'.threw
            /\ Len(log'.posted) = Len(ok.log.posted)
            /\ \A i \in 1..Len(log'.posted) :
                  log'.posted[i] = [ok.log.posted[i] EXCEPT !.delivered = FALSE]
            /\ log'.calls = ok.log.calls
            /\ \A sl \in Slots :
                  Len(CallsOn(log'.calls, sl)) = Len(subscribers[sl])
            /\ currentPanel' = ok.currentPanel
            /\ instances' = ok.instances
            /\ panels' = ok.panels
            /\ values' = ok.values
            /\ subscribers' = ok.subscribers]_vars

\* An emit whose post failed has still called the subscriber after the relay.
C11_Witness ==
    /\ log.op = "emit"
    /\ Len(log.posted) = 1
    /\ ~log.posted[1].delivered
    /\ Len(log.calls) = 2
    /\ log.calls[1].cb = "relay"
    /\ log.calls[2].cb = "cbA"

\* C12: every activate() appends one relay subscriber to every slot, and with
\* k relay subscribers on a slot and a current panel an emit, or an emitAll(),
\* posts k identical messages for that slot.
C12_ActivateStacksRelays ==
    [][/\ log'.op \in {"activate", "brokerActivate"} =>
             \A s \in Slots : subscribers'[s] = Append(subscribers[s], "relay")
       /\ (/\ log'.op = "emit" \/ (log'.op = "message" /\ log'.arg = "onReady")
           /\ currentPanel # 0) =>
             \A s \in Slots :
                 LET sent == IF log'.op = "emit" /\ log'.slot # s
                             THEN <<>>
                             ELSE [i \in 1..RelayCount(s) |->
                                     [panel |-> instances[currentPanel].panel,
                                      type |-> OnOneValueUpdated,
                                      payload |-> [property |-> s, value |-> values'[s]]]]
                     Of(m) == m.payload.property = s
                     got == SelectSeq(log'.posted, Of)
                 IN /\ Len(got) = Len(sent)
                    /\ \A i \in 1..Len(got) :
                          /\ got[i].panel = sent[i].panel
                          /\ got[i].type = sent[i].type
                          /\ got[i].payload = sent[i].payload]_vars

\* After two activations one emit has posted two identical messages.
C12_Witness ==
    /\ log.op = "emit"
    /\ RelayCount(log.slot) = 2
    /\ Len(log.posted) = 2
    /\ log.posted[1] = log.posted[2]

\* C13: a show-command with no current instance creates the panel, constructs
\* the wrapper and sets currentPanel whether the two-column layout request is
\* fulfilled, rejected or never settles, with the same resulting state and
\* without an error for the caller.
C13_LayoutOutcomeIgnored ==
    [][(log'.op = "show" /\ currentPanel = 0) =>
         LET ok == createOrShow(Start("show", NoEnv))
         IN /\ log'.layout \in LayoutOutcomes
            /\ ~log'.threw
            /\ Len(log'.created) = 1
            /\ log'.constructed = log'.created
            /\ currentPanel' = log'.created[1]
            /\ panels'[currentPanel'].status = "open"
            /\ currentPanel' = ok.currentPanel
            /\ instances' = ok.instances
            /\ panels' = ok.panels
            /\ values' = values
            /\ subscribers' = subscribers]_vars

\* A show-command whose layout request was rejected has created the panel.
C13_Witness ==
    /\ log.op = "show"
    /\ log.layout = "rejected"
    /\ Len(log.created) = 1
    /\ currentPanel = log.created[1]
    /\ panels[currentPanel].status = "open"

\* C14: an emit with no current panel posts nothing, raises no error and
\* stores the value; and when a panel's surface sends "onReady" while the
\* relay is registered, the snapshot delivers to that surface, for every slot,
\* the value the slot stores.
C14_SnapshotReachesSender ==
    /\ (log.op = "emit" /\ currentPanel = 0) =>
          /\ log.posted = <<>>
          /\ ~log.threw
          /\ values[log.slot] = log.arg
    /\ (log.op = "message" /\ log.arg = "onReady") =>
          \A s \in Slots :
              RelayCount(s) >= 1 =>
                  \E i \in 1..Len(log.posted) :
                      /\ log.posted[i].panel = log.target
                      /\ log.posted[i].payload = [property |-> s, value |-> values[s]]

\* C15: a visibility-changed event renders the bootstrap content once when the
\* panel is visible after the change and not at all when it is hidden; the
\* render leaves currentPanel, the wrappers and their disposables, the
\* listeners, the stored values and the subscriber lists as they were, and the
\* content is the one the earlier render produced.
C15_RenderIffVisible ==
    [][log'.op = "viewState" =>
         LET p == log'.target
         IN /\ log'.renders = IF log'.arg = "visible" THEN <<p>> ELSE <<>>
            /\ panels'[p].visible = (log'.arg = "visible")
            /\ currentPanel' = currentPanel
            /\ instances' = Heap
            /\ values' = values
            /\ subscribers' = subscribers
            /\ log'.posted = <<>>
            /\ log'.calls = <<>>
            /\ panels'[p].listeners = panels[p].listeners
            /\ panels'[p].html = panels[p].html
            /\ panels'[p].html = getHtmlForWebview
            /\ panels'[p].title = panels[p].title
            /\ \A q \in PanelIds \ {p} : panels'[q] = panels[q]]_vars

\* A panel that became visible again has been rendered once more.
C15_Witness ==
    /\ log.op = "viewState"
    /\ log.arg = "visible"
    /\ log.renders = <<log.target>>
    /\ panels[log.target].html = getHtmlForWebview

\* C16: on a revival the panel's options are reset to the ones of the current
\* extension location before the wrapper is constructed: the first render and
\* the three listener registrations come after the reset.
C16_OptionsResetBeforeConstruct ==
    log.op = "revive" =>
        /\ panels[log.target].options = getWebviewOptions
        /\ log.constructed = <<log.target>>
        /\ log.order = <<"options", "render", "listen", "listen", "listen">>

\* A serialized panel with stale options has been revived.
C16_Witness ==
    /\ log.op = "revive"
    /\ currentPanel = log.target
    /\ panels[log.target].origin = "restored"
    /\ panels[log.target].options = getWebviewOptions
    /\ log.renders = <<log.target>>

\* C17: the closing of a wrapper that currentPanel does not name leaves
\* currentPanel as it was.
C17_ClearsOnlyOwnReference ==
    [][(/\ log'.op \in {"closed", "dispose"}
        /\ currentPanel # 0
        /\ log'.target # instances[currentPanel].panel) =>
         currentPanel' = currentPanel]_vars

\* C18: currentPanel, when set, names a live wrapper whose panel is open, and
\* no message is posted to a disposed panel.
C18_CurrentPanelIsOpen ==
    /\ currentPanel # 0 =>
          /\ Live(currentPanel)
          /\ panels[instances[currentPanel].panel].status = "open"
    /\ \A i \in 1..Len(log.posted) :
          /\ ~log.posted[i].disposed
          /\ panels[log.posted[i].panel].status = "open"

\* A value has been relayed to the open current panel after another panel
\* was closed.
C18_Witness ==
    /\ log.op = "emit"
    /\ currentPanel # 0
    /\ Len(log.posted) >= 1
    /\ log.posted[1].panel = instances[currentPanel].panel
    /\ \E q \in PanelIds : panels[q].status = "disposed"

\* C19: the messages posted by the emitAll() of an "onReady" message go to the
\* panel whose surface sent that message, and to no other.
C19_SnapshotOnlyToSender ==
    (log.op = "message" /\ log.arg = "onReady") =>
        \A i \in 1..Len(log.posted) : log.posted[i].panel = log.target

====
